---- MODULE Spec2Model ----
(***************************************************************************)
(* Contest reminder bot (index.js): the fetch -> compose -> deliver        *)
(* pipeline.  Each async function is a sequence of steps, one per await;   *)
(* the environment (upstream APIs, Discord, the clock) is chosen           *)
(* nondeterministically at each step.                                      *)
(***************************************************************************)
EXTENDS Integers, Sequences, FiniteSets, TLC

VARIABLES
    cfg,        \* CHANNEL_ID, BACKUP_CHANNEL_ID, DISCORD_ADMIN_ID
    pc,         \* position of the running function
    run,        \* the function that was invoked from idle
    clock,      \* Date.now(), milliseconds
    platform,   \* the platform argument of fetchWithRetry / sendContestsReminder
    retries,    \* the retries argument of the current fetchWithRetry frame
    calls,      \* number of times fetchFunc was invoked
    waits,      \* the delays waited by fetchWithRetry, in order
    fetchStart, \* clock when the adapter was called
    upstream,   \* the response of the last attempt and the "now" it was filtered at
    result,     \* the value the adapter returned
    log,        \* the lines written by logToFile
    contests,   \* the contests argument of sendContestsReminder
    embed,      \* the embed built by sendContestsReminder, its fields in order
    channelId,  \* the channelId argument of sendDiscordMessage
    content,    \* the content argument of sendDiscordMessage
    deliveries, \* number of calls of sendDiscordMessage
    err,        \* the error caught by sendDiscordMessage
    sends,      \* every send or reaction attempted on Discord, in order
    msg,        \* the value sendDiscordMessage returned
    ret,        \* the value sendContestsReminder returned
    leetcodeContests,   \* the local leetcodeContests of the reminder function
    codechefContests,   \* the local codechefContests of the reminder function
    results,            \* the values the sendContestsReminder calls returned, in order
    fnRet,              \* the value the reminder function returned
    lastScheduledCheck, \* global.lastScheduledCheck
    message,            \* the message the messageCreate handler is working on
    replies,            \* the message.reply calls made, in order
    invoked,            \* the functions the handler has called, in order
    timers,             \* the pending setTimeout callbacks of the ten-minute warnings
    fired,              \* the warnings whose callback has run, in order
    scans,              \* how many times scheduleTenMinuteWarnings has been started
    env,                \* process.env: DISCORD_TOKEN and CHANNEL_ID
    expressions,        \* for each cronJobs entry, whether its expression is valid
    registered,         \* the cronJobs entries handed to cron.schedule, in order
    boot,               \* the position of the startup code
    job,                \* the index of the cronJobs entry forEach is at
    loginRetries        \* the retries argument of the running loginWithRetry

vars == <<cfg, pc, run, clock, platform, retries, calls, waits, fetchStart,
          upstream, result, log, contests, embed, channelId, content, deliveries,
          err, sends, msg, ret, leetcodeContests, codechefContests, results,
          fnRet, lastScheduledCheck, message, replies, invoked, timers, fired,
          scans, env, expressions, registered, boot, job, loginRetries>>

fetchVars == <<retries, calls, waits, fetchStart, upstream, result>>
sendVars == <<contests, embed, channelId, content, deliveries, err, sends, msg, ret>>
callerVars == <<leetcodeContests, codechefContests, results, fnRet, lastScheduledCheck>>
handlerVars == <<message, replies, invoked>>
timerVars == <<timers, fired, scans>>
bootVars == <<env, expressions, registered, boot, job, loginRetries>>
outerVars == <<callerVars, handlerVars, timerVars, bootVars>>

----------------------------------------------------------------------------
(* Bounds of the model *)

\* longest upstream listing / contest sequence
MaxContests == 2
\* Date.now() when the function under study is invoked
StartClock == 1800000
\* shortest time a request takes, milliseconds
MinLatency == 1
\* runs of the 'Ten-minute warnings' job
MaxScans == 2
\* the start times (seconds) LeetCode may announce for its contest: one 20
\* minutes after StartClock, one 40 minutes and 30 seconds after it
ScanStartTimes == {3000, 4230}

----------------------------------------------------------------------------
(* Program constants *)

RETRY_DELAY == 60000
MAX_RETRIES == 3
\* axios timeout option
REQUEST_TIMEOUT == 10000
\* '*/30 * * * *' in milliseconds
SCAN_PERIOD == 1800000
\* 10 minutes in seconds
WARNING_LEAD == 600
\* 30 minutes in seconds
WARNING_WINDOW == 1800

----------------------------------------------------------------------------
(* JavaScript values: undefined, NaN, numbers and strings *)

JsUndef == [t |-> "undefined", n |-> 0, s |-> ""]
JsNaN == [t |-> "NaN", n |-> 0, s |-> ""]
JsNum(k) == [t |-> "number", n |-> k, s |-> ""]
JsStr(str) == [t |-> "string", n |-> 0, s |-> str]

\* !v
Falsy(v) ==
    \/ v.t \in {"undefined", "NaN"}
    \/ v.t = "number" /\ v.n = 0
    \/ v.t = "string" /\ v.s = ""

\* a > b on numbers; any comparison with undefined or NaN is false
JsGreater(a, b) == a.t = "number" /\ b.t = "number" /\ a.n > b.n

\* a || b
JsOr(a, b) == IF Falsy(a) THEN b ELSE a

\* a - b
JsMinus(a, b) ==
    IF a.t = "number" /\ b.t = "number" THEN JsNum(a.n - b.n) ELSE JsNaN

\* a / k for a constant k that divides a (all times are whole minutes)
JsDiv(a, k) == IF a.t = "number" THEN JsNum(a.n \div k) ELSE JsNaN

\* Math.round(a / k): floor(a / k + 1/2)
JsRoundDiv(a, k) ==
    IF a.t = "number" THEN JsNum((2 * a.n + k) \div (2 * k)) ELSE JsNaN

\* template interpolation `${a}`
JsToString(a) ==
    CASE a.t = "string" -> a.s
      [] a.t = "undefined" -> "undefined"
      [] a.t = "NaN" -> "NaN"
      [] OTHER -> "number"

\* An ISO timestamp of January 1970, or a string that is no date
IsoDate(d, h, m) == [valid |-> TRUE, day |-> d, hour |-> h, minute |-> m]
InvalidDate == [valid |-> FALSE, day |-> 0, hour |-> 0, minute |-> 0]

\* new Date(x).getTime()
GetTime(date) ==
    IF date.valid
    THEN JsNum((((date.day - 1) * 24 + date.hour) * 60 + date.minute) * 60000)
    ELSE JsNaN

\* new Date().toISOString(): a non-empty string naming the instant
ToISOString(ms) == [t |-> "string", n |-> 0, s |-> "ISO", ms |-> ms]

\* Math.floor(Date.now() / 1000)
NowSeconds(ms) == ms \div 1000

RECURSIVE SeqSum(_)
SeqSum(s) == IF s = <<>> THEN 0 ELSE Head(s) + SeqSum(Tail(s))

SeqsUpTo(S, n) == UNION {[1..k -> S] : k \in 0..n}

Filter(s, Keep(_)) == SelectSeq(s, Keep)

Map(s, F(_)) == [i \in 1..Len(s) |-> F(s[i])]

----------------------------------------------------------------------------
(* Contest records *)

Contest(title, startTime, endTime, duration, url, description) ==
    [title |-> title, startTime |-> startTime, endTime |-> endTime,
     duration |-> duration, url |-> url, description |-> description]

\* An entry of LeetCode's allContests: title, startTime, duration, description
LeetCodeEntry(title, startTime, duration, description) ==
    Contest(title, startTime, JsUndef, duration, JsUndef, description)

\* The entries LeetCode may list when the current time is `now` seconds
LeetCodeEntries(now) ==
    {LeetCodeEntry(title, startTime, JsNum(90), JsUndef) :
        title \in {JsUndef, JsStr("Weekly 300")},
        startTime \in {JsUndef, JsNum(now - 1), JsNum(now), JsNum(now + 3600)}}

\* An entry of CodeChef's future_contests
CodeChefEntries ==
    [contest_name : {JsUndef, JsStr("Starters 100")},
     contest_start_date : {InvalidDate, IsoDate(1, 0, 10), IsoDate(1, 2, 0)},
     contest_end_date : {InvalidDate, IsoDate(1, 4, 0)},
     contest_code : {JsStr("START100")}]

\* What one request can bring back
Response(kind, listing) == [kind |-> kind, listing |-> listing]

FailureKinds == {"network_error", "no_data", "missing_field", "not_a_list"}

Responses(p, now) ==
    {Response(k, <<>>) : k \in FailureKinds}
    \cup {Response("ok", l) :
            l \in SeqsUpTo(IF p = "LeetCode" THEN LeetCodeEntries(now)
                           ELSE CodeChefEntries, MaxContests)}

\* The listings a request brings back when a reminder function runs
ReminderListings(p, now) ==
    IF p = "LeetCode"
    THEN {<<>>,
          <<LeetCodeEntry(JsStr("Weekly 300"), JsNum(now + 3600), JsNum(90), JsUndef)>>,
          <<LeetCodeEntry(JsStr("Biweekly 100"), JsNum(now + 60), JsNum(90), JsUndef)>>}
    ELSE {<<>>,
          <<[contest_name |-> JsStr("Starters 100"), contest_start_date |-> IsoDate(1, 2, 0),
             contest_end_date |-> IsoDate(1, 4, 0), contest_code |-> JsStr("START100")]>>,
          <<[contest_name |-> JsStr("Starters 99"), contest_start_date |-> IsoDate(1, 0, 10),
             contest_end_date |-> IsoDate(1, 2, 10), contest_code |-> JsStr("START99")]>>}

\* The listings a request brings back during a scan for ten-minute warnings:
\* LeetCode lists nothing, or one contest whose announced start may change
\* from one request to the next; CodeChef lists nothing, or two contests:
\* one whose start date is no date and one that starts at 01:10
ScanListings(p) ==
    IF p = "LeetCode"
    THEN {<<>>} \cup {<<LeetCodeEntry(JsStr("Weekly 300"), JsNum(start), JsNum(90), JsUndef)>> :
                        start \in ScanStartTimes}
    ELSE {<<>>,
          <<[contest_name |-> JsStr("Starters 98"), contest_start_date |-> InvalidDate,
             contest_end_date |-> IsoDate(1, 4, 0), contest_code |-> JsStr("START98")],
            [contest_name |-> JsStr("Starters 100"), contest_start_date |-> IsoDate(1, 1, 10),
             contest_end_date |-> IsoDate(1, 3, 10), contest_code |-> JsStr("START100")]>>}

\* During a scan only LeetCode's first request may fail, with a request error
ScanResponses(p) ==
    (IF p = "LeetCode" /\ retries = 0 THEN {Response("network_error", <<>>)} ELSE {})
    \cup {Response("ok", l) : l \in ScanListings(p)}

ReminderResponses(p, now) ==
    {Response("network_error", <<>>)}
    \cup {Response("ok", l) : l \in ReminderListings(p, now)}

\* What the request of the running function can bring back: every response
\* when an adapter is studied alone, a request error or one of a few
\* listings inside a reminder function
Upstream(p, now) ==
    CASE run = "fetch" -> Responses(p, now)
      [] run = "scheduleTenMinuteWarnings" -> ScanResponses(p)
      [] OTHER -> ReminderResponses(p, now)

----------------------------------------------------------------------------
(* The adapters' fetch functions *)

Ok(value) == [ok |-> TRUE, value |-> value, error |-> ""]
Throw(error) == [ok |-> FALSE, value |-> <<>>, error |-> error]

\* A filter that keeps a contest starting this very second: startTime >= now
UpcomingOrStarting(listing, now) ==
    LET keep(c) == c.startTime.t = "number" /\ c.startTime.n >= now
    IN  Filter(listing, keep)

\* contests.filter(contest => contest.startTime > now)
UpcomingOnly(listing, now) ==
    LET keep(c) == JsGreater(c.startTime, JsNum(now)) IN Filter(listing, keep)

\* A fetchFunc that reads a missing allContests as an empty listing
LeetCodeFetchFuncLenient(r, now) ==
    CASE r.kind = "network_error" -> Throw("axios")
      [] r.kind = "no_data" -> Throw("Invalid response structure from LeetCode API")
      [] r.kind = "missing_field" -> Ok(<<>>)
      [] r.kind = "not_a_list" -> Throw("contests.filter is not a function")
      [] OTHER -> Ok(UpcomingOnly(r.listing, now))

\* The fetchFunc of fetchLeetCodeContests
LeetCodeFetchFunc(r, now) ==
    CASE r.kind = "network_error" -> Throw("axios")
      [] r.kind \in {"no_data", "missing_field"} ->
            Throw("Invalid response structure from LeetCode API")
      [] r.kind = "not_a_list" -> Throw("contests.filter is not a function")
      [] OTHER -> Ok(UpcomingOnly(r.listing, now))

\* duration: (end.getTime() - start.getTime()) / 60
CodeChefDuration(e) ==
    JsDiv(JsMinus(GetTime(e.contest_end_date), GetTime(e.contest_start_date)), 60)

\* The record built from one entry of future_contests
CodeChefRecord(e) ==
    Contest(JsOr(e.contest_name, JsStr("Unnamed Contest")),
            JsDiv(GetTime(e.contest_start_date), 1000),
            JsDiv(GetTime(e.contest_end_date), 1000),
            CodeChefDuration(e),
            JsStr("https://www.codechef.com/" \o JsToString(e.contest_code)),
            JsUndef)

\* The fetchFunc of fetchCodeChefContests
CodeChefFetchFunc(r) ==
    CASE r.kind = "network_error" -> Throw("axios")
      [] r.kind \in {"no_data", "missing_field"} ->
            Throw("Invalid response structure from CodeChef API")
      [] r.kind = "not_a_list" -> Throw("futureContests.map is not a function")
      [] OTHER -> Ok(Map(r.listing, CodeChefRecord))

FetchFunc(p, r, now) ==
    IF p = "LeetCode" THEN LeetCodeFetchFunc(r, now) ELSE CodeChefFetchFunc(r)

----------------------------------------------------------------------------
(* fetchWithRetry *)

LogLine(text, p, n) == [text |-> text, platform |-> p, n |-> n]

\* A catch that handles request errors only and rethrows the rest
CaughtRequestErrorsOnly(out) == ~out.ok /\ out.error = "axios"

\* A fetchWithRetry without its catch
CaughtNever(out) == FALSE

\* catch (error): every failure of fetchFunc is caught, whatever its kind
Caught(out) == ~out.ok

\* An off-by-one retry test: retries <= MAX_RETRIES
ShouldRetryOffByOne(r) == r <= MAX_RETRIES

\* if (retries < MAX_RETRIES)
ShouldRetry(r) == r < MAX_RETRIES

\* A delay that grows with the attempt number, as loginWithRetry's does
RetryDelayGrowing(r) == RETRY_DELAY * (r + 1)

\* setTimeout(resolve, RETRY_DELAY): the delay before retry number r + 1
RetryDelayFor(r) == RETRY_DELAY

\* The value fetchWithRetry returns after the last failed attempt
GiveUpValue == <<>>

\* How long one request may take
Latencies == {MinLatency, REQUEST_TIMEOUT}

\* The time the awaited request of the running function may take: during a
\* scan every request is answered at once
RequestTimes == IF run = "scheduleTenMinuteWarnings" THEN {MinLatency} ELSE Latencies

\* Where the caller of the adapter goes on
AfterFetch == "fetched"

\* fetchLeetCodeContests() / fetchCodeChefContests() is called
CallFetch(p) ==
    /\ pc = "idle"
    /\ pc' = "attempt"
    /\ run' = "fetch"
    /\ platform' = p
    /\ retries' = 0
    /\ fetchStart' = clock
    /\ UNCHANGED <<cfg, clock, calls, waits, upstream, result, log>>
    /\ UNCHANGED sendVars
    /\ UNCHANGED outerVars

\* try { return await fetchFunc() } catch { log; retry or give up }
Attempt ==
    /\ pc = "attempt"
    /\ \E d \in RequestTimes :
         LET now == NowSeconds(clock + d) IN
         \E r \in Upstream(platform, now) :
            LET out == FetchFunc(platform, r, now) IN
            /\ clock' = clock + d
            /\ calls' = calls + 1
            /\ upstream' = [response |-> r, now |-> now]
            /\ IF out.ok
               THEN /\ result' = out.value
                    /\ pc' = AfterFetch
                    /\ log' = log
               ELSE IF ~Caught(out)
               THEN /\ pc' = "thrown"
                    /\ UNCHANGED <<result, log>>
               ELSE IF ShouldRetry(retries)
               THEN /\ log' = log \o <<LogLine("Error fetching: " \o out.error, platform, retries + 1),
                                      LogLine("Retrying", platform, RETRY_DELAY \div 1000)>>
                    /\ pc' = "delay"
                    /\ result' = result
               ELSE /\ log' = log \o <<LogLine("Error fetching: " \o out.error, platform, retries + 1),
                                      LogLine("All fetch attempts failed. Giving up.", platform, 0)>>
                    /\ result' = GiveUpValue
                    /\ pc' = AfterFetch
    /\ UNCHANGED <<cfg, run, platform, retries, waits, fetchStart>>
    /\ UNCHANGED sendVars
    /\ UNCHANGED outerVars

\* await new Promise(resolve => setTimeout(resolve, RETRY_DELAY));
\* return fetchWithRetry(fetchFunc, platform, retries + 1)
RetryDelay ==
    /\ pc = "delay"
    /\ clock' = clock + RetryDelayFor(retries)
    /\ waits' = Append(waits, RetryDelayFor(retries))
    /\ retries' = retries + 1
    /\ pc' = "attempt"
    /\ UNCHANGED <<cfg, run, platform, calls, fetchStart, upstream, result, log>>
    /\ UNCHANGED sendVars
    /\ UNCHANGED outerVars

----------------------------------------------------------------------------
(* Payloads and messages *)

Payload(kind, text, embeds) == [kind |-> kind, content |-> text, embeds |-> embeds]
NoPayload == Payload("none", "", <<>>)

\* A plain string handed to send()
StringPayload(text) == Payload("string", text, <<>>)

\* An object { content, embeds } handed to send()
ObjectPayload(text, embeds) == Payload("object", text, embeds)

\* content.content: a property of the object, undefined on a string
ContentProperty(payload) ==
    IF payload.kind = "object" THEN JsStr(payload.content) ELSE JsUndef

Message(kind, ch, payload) == [kind |-> kind, channel |-> ch, payload |-> payload]
NoMessage == Message("none", "", NoPayload)
Null == Message("null", "", NoPayload)

\* One call on Discord, made at `site` of the code (primary, backup, admin,
\* reaction): channel.send, users.fetch, admin.send or msg.react
DiscordCall(site, op, to, payload, ok) ==
    [site |-> site, op |-> op, to |-> to, payload |-> payload, ok |-> ok]

NoEmbed == [built |-> FALSE, title |-> "", fields |-> <<>>]

----------------------------------------------------------------------------
(* sendContestsReminder: composing *)

\* formatContestTime: the IST wall-clock minute (UTC + 5:30) of the timestamp
FormatContestTime(timestamp) ==
    IF timestamp.t = "number"
    THEN [minute |-> (timestamp.n + 19800) \div 60, zone |-> "IST"]
    ELSE [minute |-> 0, zone |-> "Invalid Date IST"]

\* A completeness test that forgets startTime
IncompleteTitleOnly(c) == Falsy(c.title)

\* if (!contest.title || !contest.startTime): the record is skipped
Incomplete(c) == Falsy(c.title) \/ Falsy(c.startTime)

\* The field embed.addFields receives for one contest
ContestField(c) ==
    [name |-> JsToString(c.title),
     time |-> FormatContestTime(c.startTime),
     hours |-> JsRoundDiv(JsOr(c.duration, JsNum(0)), 60),
     url |-> IF Falsy(c.url) THEN JsUndef ELSE c.url,
     description |-> IF Falsy(c.description) THEN JsUndef ELSE c.description]

\* contests.forEach: the fields added, in input order
RECURSIVE EmbedFields(_)
EmbedFields(cs) ==
    IF cs = <<>> THEN <<>>
    ELSE IF Incomplete(Head(cs)) THEN EmbedFields(Tail(cs))
    ELSE <<ContestField(Head(cs))>> \o EmbedFields(Tail(cs))

\* contests.forEach: the warnings logged, in input order
RECURSIVE SkipWarnings(_, _)
SkipWarnings(p, cs) ==
    IF cs = <<>> THEN <<>>
    ELSE IF Incomplete(Head(cs))
         THEN <<[text |-> "Warning: Incomplete contest data", platform |-> p,
                 n |-> 0, contest |-> Head(cs)]>> \o SkipWarnings(p, Tail(cs))
    ELSE SkipWarnings(p, Tail(cs))

BuildEmbed(p, cs) ==
    [built |-> TRUE, title |-> "Upcoming " \o p \o " Contests", fields |-> EmbedFields(cs)]

\* One text for every platform
NoContestsMessageMerged(p) ==
    StringPayload("No upcoming contests found. Keep practicing!")

\* An emptiness test on the array itself, which is always truthy: !contests
NothingToSendNever(cs) == FALSE

\* if (contests.length === 0)
NothingToSend(cs) == Len(cs) = 0

NoContestsMessage(p) ==
    StringPayload("No upcoming " \o p \o " contests found. Keep practicing!")

ReminderMessage(p, e) ==
    ObjectPayload("@everyone Here's your " \o p \o " Contest Reminder!", <<e>>)

\* The contest records sendContestsReminder may be handed
ContestInputs ==
    {Contest(title, startTime, JsUndef, JsNum(90), JsUndef, JsStr("Weekly contest")) :
        title \in {JsUndef, JsStr(""), JsStr("Weekly 300")},
        startTime \in {JsUndef, JsNum(5400)}}
    \cup {Contest(JsStr("Weekly 300"), startTime, JsUndef, JsNum(90), JsUndef, JsUndef) :
        startTime \in {JsNaN, JsNum(0)}}
    \cup {CodeChefRecord([contest_name |-> JsStr("Starters 100"),
                          contest_start_date |-> IsoDate(1, 2, 0),
                          contest_end_date |-> IsoDate(1, 4, 0),
                          contest_code |-> JsStr("START100")])}

\* The body of sendContestsReminder(p, cs) up to its call of
\* sendDiscordMessage(CHANNEL_ID, ...), after the lines `before` were logged
StartReminder(p, cs, before) ==
    /\ platform' = p
    /\ contests' = cs
    /\ IF NothingToSend(cs)
       THEN /\ embed' = NoEmbed
            /\ content' = NoContestsMessage(p)
            /\ log' = Append(before, LogLine("Sending contest reminder", p, Len(cs)))
       ELSE /\ embed' = BuildEmbed(p, cs)
            /\ content' = ReminderMessage(p, BuildEmbed(p, cs))
            /\ log' = before \o <<LogLine("Sending contest reminder", p, Len(cs))>>
                             \o SkipWarnings(p, cs)
    /\ channelId' = cfg.channel
    /\ deliveries' = deliveries + 1
    /\ pc' = "send"

\* sendContestsReminder(platform, contests) is called: it logs, composes and
\* calls sendDiscordMessage(CHANNEL_ID, ...)
CallSendContestsReminder(p, cs) ==
    /\ pc = "idle"
    /\ run' = "reminder"
    /\ StartReminder(p, cs, log)
    /\ UNCHANGED <<cfg, clock, err, sends, msg, ret>>
    /\ UNCHANGED fetchVars
    /\ UNCHANGED outerVars

----------------------------------------------------------------------------
(* sendDiscordMessage *)

SendOutcomes == {"not_found", "send_failed", "sent"}

\* const channel = client.channels.cache.get(channelId);
\* if (!channel) throw ...; return await channel.send(content)
PrimarySend ==
    /\ pc = "send"
    /\ \E o \in SendOutcomes :
        CASE o = "not_found" ->
                /\ err' = "Channel not found"
                /\ pc' = "caught"
                /\ UNCHANGED <<sends, msg>>
          [] o = "send_failed" ->
                /\ sends' = Append(sends, DiscordCall("primary", "send", channelId, content, FALSE))
                /\ err' = "send failed"
                /\ pc' = "caught"
                /\ UNCHANGED msg
          [] OTHER ->
                /\ sends' = Append(sends, DiscordCall("primary", "send", channelId, content, TRUE))
                /\ msg' = Message("message", channelId, content)
                /\ pc' = "returned"
                /\ UNCHANGED err
    /\ UNCHANGED <<cfg, run, clock, platform, log, contests, embed, channelId,
                   content, deliveries, ret>>
    /\ UNCHANGED fetchVars
    /\ UNCHANGED outerVars

\* A backup test without the comparison to the channel that was tried
TryBackupWheneverConfigured(ch) == ~Falsy(cfg.backup)

\* if (BACKUP_CHANNEL_ID && channelId !== BACKUP_CHANNEL_ID)
TryBackup(ch) == ~Falsy(cfg.backup) /\ ch # cfg.backup.s

\* catch (error) { log; choose the backup or go on to the admin }
Caught_sendDiscordMessage ==
    /\ pc = "caught"
    /\ IF TryBackup(channelId)
       THEN /\ log' = log \o <<LogLine("Error sending Discord message: " \o err, "", 0),
                              LogLine("Attempting to send to backup channel", "", 0)>>
            /\ pc' = "backup"
       ELSE /\ log' = Append(log, LogLine("Error sending Discord message: " \o err, "", 0))
            /\ pc' = "admin"
    /\ UNCHANGED <<cfg, run, clock, platform, contests, embed, channelId, content,
                   deliveries, err, sends, msg, ret>>
    /\ UNCHANGED fetchVars
    /\ UNCHANGED outerVars

\* { content: `Failed to send to main channel. Original message:
\*   ${content.content ? content.content : 'No content'}` }
DegradedMessage(payload) ==
    ObjectPayload("Failed to send to main channel. Original message: "
                  \o (IF Falsy(ContentProperty(payload)) THEN "No content"
                      ELSE ContentProperty(payload).s), <<>>)

\* A backup send whose message is not returned: the code falls through
AfterBackupSentFallsThrough == "admin"

\* Where sendDiscordMessage goes after the backup channel's send resolved
AfterBackupSent == "returned"

\* const backupChannel = client.channels.cache.get(BACKUP_CHANNEL_ID);
\* if (backupChannel) return await backupChannel.send(...)
BackupSend ==
    /\ pc = "backup"
    /\ \E o \in SendOutcomes :
        CASE o = "not_found" ->
                /\ pc' = "admin"
                /\ UNCHANGED <<sends, msg, log>>
          [] o = "send_failed" ->
                /\ sends' = Append(sends, DiscordCall("backup", "send", cfg.backup.s,
                                                      DegradedMessage(content), FALSE))
                /\ log' = Append(log, LogLine("Failed to send to backup channel", "", 0))
                /\ pc' = "admin"
                /\ UNCHANGED msg
          [] OTHER ->
                /\ sends' = Append(sends, DiscordCall("backup", "send", cfg.backup.s,
                                                      DegradedMessage(content), TRUE))
                /\ msg' = Message("message", cfg.backup.s, DegradedMessage(content))
                /\ pc' = AfterBackupSent
                /\ UNCHANGED log
    /\ UNCHANGED <<cfg, run, clock, platform, contests, embed, channelId, content,
                   deliveries, err, ret>>
    /\ UNCHANGED fetchVars
    /\ UNCHANGED outerVars

\* An admin test that skips the admin whenever a backup channel is configured
NotifyAdminOnlyWithoutBackup == ~Falsy(cfg.admin) /\ Falsy(cfg.backup)

\* if (DISCORD_ADMIN_ID)
NotifyAdmin == ~Falsy(cfg.admin)

\* A try block that starts after users.fetch: a failed fetch escapes it
AdminSendFailureCaughtOnly(o) == o = "send_failed"

\* try { fetch; send } catch (adminError) { log }: both failures are caught
AdminFailureCaught(o) == o \in {"fetch_failed", "send_failed"}

AdminOutcomes == {"fetch_failed", "send_failed", "sent"}

AdminPayload(ch, error) ==
    StringPayload("Failed to send reminder to channel " \o ch \o ": " \o error)

\* client.users.fetch(DISCORD_ADMIN_ID)
AdminFetch(ok) == DiscordCall("admin", "fetch", cfg.admin.s, NoPayload, ok)

\* admin.send(`Failed to send reminder to channel ${channelId}: ${error.message}`)
AdminSend(ch, error, ok) ==
    DiscordCall("admin", "send", cfg.admin.s, AdminPayload(ch, error), ok)

\* const admin = await client.users.fetch(DISCORD_ADMIN_ID); await admin.send(...);
\* return null
AdminNotification ==
    /\ pc = "admin"
    /\ IF NotifyAdmin
       THEN \E o \in AdminOutcomes :
            /\ CASE o = "fetch_failed" ->
                    /\ sends' = Append(sends, AdminFetch(FALSE))
                    /\ log' = Append(log, LogLine("Failed to notify admin", "", 0))
                 [] o = "send_failed" ->
                    /\ sends' = sends \o <<AdminFetch(TRUE), AdminSend(channelId, err, FALSE)>>
                    /\ log' = Append(log, LogLine("Failed to notify admin", "", 0))
                 [] OTHER ->
                    /\ sends' = sends \o <<AdminFetch(TRUE), AdminSend(channelId, err, TRUE)>>
                    /\ UNCHANGED log
            /\ IF o = "sent" \/ AdminFailureCaught(o)
               THEN msg' = Null /\ pc' = "returned"
               ELSE msg' = msg /\ pc' = "thrown"
       ELSE /\ UNCHANGED <<sends, log>>
            /\ msg' = Null
            /\ pc' = "returned"
    /\ UNCHANGED <<cfg, run, clock, platform, contests, embed, channelId, content,
                   deliveries, err, ret>>
    /\ UNCHANGED fetchVars
    /\ UNCHANGED outerVars

----------------------------------------------------------------------------
(* sendContestsReminder: after sendDiscordMessage returned *)

\* A reaction attempted whatever sendDiscordMessage returned
ShouldReactAlways(m) == TRUE

\* if (msg)
ShouldReact(m) == m # Null

\* if (contests.length === 0) { await sendDiscordMessage(...); return; }
\* ... if (msg) { try { await msg.react() } catch { log } } return true
AfterDelivery ==
    /\ pc = "returned"
    /\ IF NothingToSend(contests)
       THEN /\ ret' = "undefined"
            /\ UNCHANGED <<sends, log>>
       ELSE /\ ret' = "true"
            /\ IF ShouldReact(msg)
               THEN \E ok \in BOOLEAN :
                    /\ sends' = Append(sends, DiscordCall("reaction", "react", msg.channel, msg.payload, ok))
                    /\ log' = IF ok THEN log
                              ELSE Append(log, LogLine("Failed to add reaction to message", "", 0))
               ELSE UNCHANGED <<sends, log>>
    /\ pc' = "done"
    /\ UNCHANGED <<cfg, run, clock, platform, contests, embed, channelId, content,
                   deliveries, err, msg>>
    /\ UNCHANGED fetchVars
    /\ UNCHANGED outerVars

----------------------------------------------------------------------------
(* sendCombinedReminder, sendLeetCodeReminder, sendCodeChefReminder *)

ReminderFunctions ==
    {"sendCombinedReminder", "sendLeetCodeReminder", "sendCodeChefReminder"}

\* The platform a reminder function fetches first
FirstPlatform(fn) == IF fn = "sendCodeChefReminder" THEN "CodeChef" ELSE "LeetCode"

\* fetchLeetCodeContests() / fetchCodeChefContests() is called from inside a
\* function: a fresh fetchWithRetry frame
EnterFetch(p) ==
    /\ platform' = p
    /\ retries' = 0
    /\ calls' = 0
    /\ waits' = <<>>
    /\ fetchStart' = clock
    /\ pc' = "attempt"
    /\ UNCHANGED <<upstream, result>>

\* The first lines of a reminder function: log, set
\* global.lastScheduledCheck, call the first adapter
BeginReminder(fn) ==
    /\ run' = fn
    /\ log' = Append(log, LogLine("Starting " \o fn, "", NowSeconds(clock)))
    /\ lastScheduledCheck' = ToISOString(clock)
    /\ EnterFetch(FirstPlatform(fn))
    /\ UNCHANGED <<cfg, clock, leetcodeContests, codechefContests, results, fnRet>>
    /\ UNCHANGED sendVars

\* The schedule invokes a reminder function
CallReminderFunction(fn) ==
    /\ pc = "idle"
    /\ BeginReminder(fn)
    /\ UNCHANGED <<handlerVars, timerVars, bootVars>>

\* Each platform's reminder handed the other platform's contests
ReminderContestsSwapped(p, lc, cc) == IF p = "LeetCode" THEN cc ELSE lc

\* The contests sendCombinedReminder hands to sendContestsReminder(p, ...):
\* leetcodeContests for 'LeetCode', codechefContests for 'CodeChef'
ReminderContests(p, lc, cc) == IF p = "LeetCode" THEN lc ELSE cc

\* sendCombinedReminder: const leetcodeContests = await fetchLeetCodeContests();
\* log; then fetchCodeChefContests() is called
Combined_AfterLeetCodeFetch ==
    /\ run = "sendCombinedReminder"
    /\ pc = AfterFetch
    /\ platform = "LeetCode"
    /\ leetcodeContests' = result
    /\ log' = Append(log, LogLine("Fetched LeetCode contests", "LeetCode", Len(result)))
    /\ EnterFetch("CodeChef")
    /\ UNCHANGED <<cfg, run, clock, codechefContests, results, fnRet, lastScheduledCheck>>
    /\ UNCHANGED sendVars
    /\ UNCHANGED <<handlerVars, timerVars, bootVars>>

\* sendCombinedReminder: const codechefContests = await fetchCodeChefContests();
\* log; then sendContestsReminder('LeetCode', leetcodeContests) is called
Combined_AfterCodeChefFetch ==
    /\ run = "sendCombinedReminder"
    /\ pc = AfterFetch
    /\ platform = "CodeChef"
    /\ codechefContests' = result
    /\ StartReminder("LeetCode", ReminderContests("LeetCode", leetcodeContests, result),
                     Append(log, LogLine("Fetched CodeChef contests", "CodeChef", Len(result))))
    /\ UNCHANGED <<cfg, run, clock, leetcodeContests, results, fnRet, lastScheduledCheck>>
    /\ UNCHANGED <<err, sends, msg, ret>>
    /\ UNCHANGED fetchVars
    /\ UNCHANGED <<handlerVars, timerVars, bootVars>>

\* sendCombinedReminder: const lcResult = await sendContestsReminder('LeetCode', ...);
\* then sendContestsReminder('CodeChef', codechefContests) is called
Combined_AfterLeetCodeReminder ==
    /\ run = "sendCombinedReminder"
    /\ pc = "done"
    /\ platform = "LeetCode"
    /\ results' = Append(results, ret)
    /\ StartReminder("CodeChef",
                     ReminderContests("CodeChef", leetcodeContests, codechefContests), log)
    /\ UNCHANGED <<cfg, run, clock, leetcodeContests, codechefContests, fnRet, lastScheduledCheck>>
    /\ UNCHANGED <<err, sends, msg, ret>>
    /\ UNCHANGED fetchVars
    /\ UNCHANGED <<handlerVars, timerVars, bootVars>>

\* Where a function that has returned leaves its caller
AfterFunction == "finished"

\* sendCombinedReminder: const ccResult = await sendContestsReminder('CodeChef', ...);
\* log; return true
Combined_Return ==
    /\ run = "sendCombinedReminder"
    /\ pc = "done"
    /\ platform = "CodeChef"
    /\ results' = Append(results, ret)
    /\ log' = Append(log, LogLine("Combined reminder sent successfully", "", 0))
    /\ fnRet' = "true"
    /\ pc' = AfterFunction
    /\ UNCHANGED <<cfg, run, clock, platform, leetcodeContests, codechefContests, lastScheduledCheck>>
    /\ UNCHANGED sendVars
    /\ UNCHANGED fetchVars
    /\ UNCHANGED <<handlerVars, timerVars, bootVars>>

SinglePlatformFunctions == {"sendLeetCodeReminder", "sendCodeChefReminder"}

\* sendLeetCodeReminder / sendCodeChefReminder: const contests = await fetch...();
\* log; then sendContestsReminder(platform, contests) is called
Single_AfterFetch ==
    /\ run \in SinglePlatformFunctions
    /\ pc = AfterFetch
    /\ IF platform = "LeetCode"
       THEN leetcodeContests' = result /\ UNCHANGED codechefContests
       ELSE codechefContests' = result /\ UNCHANGED leetcodeContests
    /\ StartReminder(platform, result,
                     Append(log, LogLine("Fetched contests", platform, Len(result))))
    /\ UNCHANGED <<cfg, run, clock, results, fnRet, lastScheduledCheck>>
    /\ UNCHANGED <<err, sends, msg, ret>>
    /\ UNCHANGED fetchVars
    /\ UNCHANGED <<handlerVars, timerVars, bootVars>>

\* sendLeetCodeReminder / sendCodeChefReminder:
\* const result = await sendContestsReminder(...); log; return result
Single_Return ==
    /\ run \in SinglePlatformFunctions
    /\ pc = "done"
    /\ results' = Append(results, ret)
    /\ log' = Append(log, LogLine("reminder sent successfully: " \o ret, platform, 0))
    /\ fnRet' = ret
    /\ pc' = AfterFunction
    /\ UNCHANGED <<cfg, run, clock, platform, leetcodeContests, codechefContests, lastScheduledCheck>>
    /\ UNCHANGED sendVars
    /\ UNCHANGED fetchVars
    /\ UNCHANGED <<handlerVars, timerVars, bootVars>>

----------------------------------------------------------------------------
(* scheduleTenMinuteWarnings and its deferred warnings *)

\* No function is in flight
Quiescent == pc \in {"idle", AfterFunction}

\* The instant of the k-th run of the 'Ten-minute warnings' job after StartClock
Tick(k) == StartClock + k * SCAN_PERIOD

ScanDue == scans < MaxScans /\ clock = Tick(scans)

\* The schedule runs scheduleTenMinuteWarnings: log, set
\* global.lastScheduledCheck, call the first adapter
CallScheduleTenMinuteWarnings ==
    /\ Quiescent
    /\ ScanDue
    /\ scans' = scans + 1
    /\ BeginReminder("scheduleTenMinuteWarnings")
    /\ UNCHANGED <<timers, fired>>
    /\ UNCHANGED <<handlerVars, bootVars>>

\* const leetcodeContests = await fetchLeetCodeContests(); then
\* fetchCodeChefContests() is called
Scan_AfterLeetCodeFetch ==
    /\ run = "scheduleTenMinuteWarnings"
    /\ pc = AfterFetch
    /\ platform = "LeetCode"
    /\ leetcodeContests' = result
    /\ EnterFetch("CodeChef")
    /\ UNCHANGED <<cfg, run, clock, log, codechefContests, results, fnRet, lastScheduledCheck>>
    /\ UNCHANGED sendVars
    /\ UNCHANGED <<handlerVars, timerVars, bootVars>>

\* ...leetcodeContests.map(c => ({ ...c, platform: 'LeetCode' }))
RECURSIVE Tagged(_, _)
Tagged(cs, p) ==
    IF cs = <<>> THEN <<>>
    ELSE <<[contest |-> Head(cs), platform |-> p]>> \o Tagged(Tail(cs), p)

AllContests(lc, cc) == Tagged(lc, "LeetCode") \o Tagged(cc, "CodeChef")

\* const timeUntilStart = contest.startTime - now;
\* const tenMinBefore = timeUntilStart - 600
TenMinBefore(c, now) == JsMinus(JsMinus(c.startTime, JsNum(now)), JsNum(WARNING_LEAD))

\* A window that includes its lower end: tenMinBefore >= 0
InWindowClosedBelow(x) ==
    x.t = "number" /\ x.n >= 0 /\ JsGreater(JsNum(WARNING_WINDOW), x)

\* if (tenMinBefore > 0 && tenMinBefore < 1800)
InWindow(x) == JsGreater(x, JsNum(0)) /\ JsGreater(JsNum(WARNING_WINDOW), x)

\* The contests of the scan that get a timer, in the order of allContests
ToArm(all, now) ==
    SelectSeq(all, LAMBDA e : ~Falsy(e.contest.startTime)
                              /\ InWindow(TenMinBefore(e.contest, now)))

\* One pending setTimeout: its contest and the instant it is due
Timer(id, e, armedAt, now) ==
    [id |-> id, platform |-> e.platform, contest |-> e.contest,
     fireAt |-> armedAt + TenMinBefore(e.contest, now).n * 1000]

\* The timers that have been armed so far
ArmedSoFar == Cardinality(timers) + Len(fired)

\* A scan that withdraws the warnings armed by earlier scans
PendingAfterScanReplaced(pending, armedNow) == armedNow

\* setTimeout only adds a timer: those armed earlier stay pending
PendingAfterScan(pending, armedNow) == pending \cup armedNow

\* const codechefContests = await fetchCodeChefContests(); allContests;
\* now; allContests.forEach(... setTimeout ...); log; return true
Scan_AfterCodeChefFetch ==
    /\ run = "scheduleTenMinuteWarnings"
    /\ pc = AfterFetch
    /\ platform = "CodeChef"
    /\ codechefContests' = result
    /\ LET now == NowSeconds(clock)
           all == AllContests(leetcodeContests, result)
           arm == ToArm(all, now)
           missing == SelectSeq(all, LAMBDA e : Falsy(e.contest.startTime))
       IN /\ timers' = PendingAfterScan(timers,
                           {Timer(ArmedSoFar + i, arm[i], clock, now) : i \in 1..Len(arm)})
          /\ log' = log \o [i \in 1..Len(missing) |->
                                LogLine("Warning: Contest missing startTime", missing[i].platform, 0)]
                        \o <<LogLine("Scheduled ten-minute warnings", "", Len(arm))>>
    /\ fnRet' = "true"
    /\ pc' = AfterFunction
    /\ UNCHANGED <<cfg, run, clock, platform, leetcodeContests, results, lastScheduledCheck>>
    /\ UNCHANGED <<fired, scans>>
    /\ UNCHANGED sendVars
    /\ UNCHANGED fetchVars
    /\ UNCHANGED <<handlerVars, bootVars>>

\* The ways one call sendDiscordMessage(ch, payload) can go: the Discord
\* calls it makes, the lines it logs and the value it returns
SendDiscordMessageRuns(ch, payload) ==
    LET Run(c, l, m) == [calls |-> c, log |-> l, msg |-> m]
        ErrorLine(e) == LogLine("Error sending Discord message: " \o e, "", 0)
        AdminRuns(e) ==
            IF NotifyAdmin
            THEN {Run(<<AdminFetch(FALSE)>>, <<LogLine("Failed to notify admin", "", 0)>>, Null),
                  Run(<<AdminFetch(TRUE), AdminSend(ch, e, FALSE)>>,
                      <<LogLine("Failed to notify admin", "", 0)>>, Null),
                  Run(<<AdminFetch(TRUE), AdminSend(ch, e, TRUE)>>, <<>>, Null)}
            ELSE {Run(<<>>, <<>>, Null)}
        Then(r, rs) == {Run(r.calls \o a.calls, r.log \o a.log, a.msg) : a \in rs}
        BackupRuns(e) ==
            IF TryBackup(ch)
            THEN LET attempt == LogLine("Attempting to send to backup channel", "", 0)
                     call(ok) == DiscordCall("backup", "send", cfg.backup.s,
                                             DegradedMessage(payload), ok)
                 IN Then(Run(<<>>, <<attempt>>, Null), AdminRuns(e))
                    \cup Then(Run(<<call(FALSE)>>,
                                  <<attempt, LogLine("Failed to send to backup channel", "", 0)>>,
                                  Null), AdminRuns(e))
                    \cup {Run(<<call(TRUE)>>, <<attempt>>,
                              Message("message", cfg.backup.s, DegradedMessage(payload)))}
            ELSE AdminRuns(e)
        Failed(c, e) == Then(Run(c, <<ErrorLine(e)>>, Null), BackupRuns(e))
    IN {Run(<<DiscordCall("primary", "send", ch, payload, TRUE)>>, <<>>,
            Message("message", ch, payload))}
       \cup Failed(<<>>, "Channel not found")
       \cup Failed(<<DiscordCall("primary", "send", ch, payload, FALSE)>>, "send failed")

\* The embed and the message of the warning for one contest
WarningEmbed(tm) ==
    [built |-> TRUE,
     title |-> "10 Minutes Left for " \o tm.platform \o " Contest!",
     fields |-> <<[name |-> JsToString(tm.contest.title),
                   time |-> FormatContestTime(tm.contest.startTime)]>>]

WarningMessage(tm) ==
    ObjectPayload("@everyone 10-Minute Countdown Begins!", <<WarningEmbed(tm)>>)

\* What msg.react adds to the calls and the log of a warning
WarningReaction(m, ok) ==
    IF m = Null
    THEN [calls |-> <<>>, log |-> <<>>]
    ELSE [calls |-> <<DiscordCall("reaction", "react", m.channel, m.payload, ok)>>,
          log |-> IF ok THEN <<>>
                  ELSE <<LogLine("Failed to add reaction to 10-min warning", "", 0)>>]

\* A timer that stays armed after its callback ran, as setInterval would
PendingAfterFiringRepeated(tm) == timers

\* setTimeout is one-shot: the timer is gone once its callback runs
PendingAfterFiring(tm) == timers \ {tm}

\* The callback of a due timer runs: it logs, sends the warning for its
\* contest with sendDiscordMessage(CHANNEL_ID, ...) and reacts to the message
FireTimer(tm) ==
    /\ tm \in timers
    /\ tm.fireAt <= clock
    /\ \E r \in SendDiscordMessageRuns(cfg.channel, WarningMessage(tm)) :
       \E ok \in (IF r.msg = Null THEN {TRUE} ELSE BOOLEAN) :
        /\ sends' = sends \o r.calls \o WarningReaction(r.msg, ok).calls
        /\ log' = log \o <<LogLine("Sending 10-minute warning", tm.platform, tm.id)>>
                      \o r.log \o WarningReaction(r.msg, ok).log
        /\ fired' = Append(fired, [timer |-> tm, at |-> clock, payload |-> WarningMessage(tm),
                                   delivered |-> r.msg # Null])
    /\ deliveries' = deliveries + 1
    /\ timers' = PendingAfterFiring(tm)
    /\ UNCHANGED <<cfg, pc, run, clock, platform, contests, embed, channelId, content,
                   err, msg, ret, scans>>
    /\ UNCHANGED fetchVars
    /\ UNCHANGED <<callerVars, handlerVars, bootVars>>

WarningFires == \E tm \in timers : FireTimer(tm)

\* The instants something is due while nothing runs: the next run of the
\* job and the pending timers
NextEvents ==
    {tm.fireAt : tm \in timers} \cup (IF scans < MaxScans THEN {Tick(scans)} ELSE {})

\* Nothing runs and nothing is due: time passes until the next event
Wait ==
    /\ Quiescent
    /\ NextEvents # {}
    /\ \A t \in NextEvents : t > clock
    /\ clock' = CHOOSE t \in NextEvents : \A u \in NextEvents : t <= u
    /\ UNCHANGED <<cfg, pc, run, platform, log>>
    /\ UNCHANGED fetchVars
    /\ UNCHANGED sendVars
    /\ UNCHANGED outerVars

----------------------------------------------------------------------------
(* The messageCreate handler *)

\* Message contents are sequences of characters
Prefix == <<"!", "c", "o", "n", "t", "e", "s", "t">>
Check == <<"c", "h", "e", "c", "k">>
Leetcode == <<"l", "e", "e", "t", "c", "o", "d", "e">>
Codechef == <<"c", "o", "d", "e", "c", "h", "e", "f">>
Warn == <<"w", "a", "r", "n">>
Status == <<"s", "t", "a", "t", "u", "s">>
Space == <<" ">>

\* The contents a message may have: each subcommand, the bare prefix, an
\* unknown word, a longer word that begins with the prefix, two spaces after
\* the prefix, a third word, and texts that do not begin with the prefix
Contents ==
    {Prefix \o Space \o w : w \in {Check, Leetcode, Codechef, Warn, Status, <<"x">>}}
    \cup {Prefix,
          Prefix \o <<"s">> \o Space \o Leetcode,
          Prefix \o Space \o Space \o Check,
          Prefix \o Space \o Codechef \o Space \o Leetcode,
          <<"h", "i">>,
          <<"h", "i">> \o Space \o Prefix \o Space \o Check,
          Space \o Prefix \o Space \o Check,
          <<"!", "c", "o", "n">>}

\* No message has reached the messageCreate handler
NoInbound == [bot |-> FALSE, content |-> <<>>, handled |-> TRUE]

Inbound == [bot : BOOLEAN, content : Contents, handled : {FALSE}]

\* content.startsWith(prefix)
StartsWith(str, prefix) ==
    Len(str) >= Len(prefix) /\ SubSeq(str, 1, Len(prefix)) = prefix

\* content.split(' ')
RECURSIVE Split(_)
Split(str) ==
    IF \A i \in 1..Len(str) : str[i] # " "
    THEN <<str>>
    ELSE LET i == CHOOSE k \in 1..Len(str) :
                      str[k] = " " /\ \A j \in 1..(k - 1) : str[j] # " "
         IN <<SubSeq(str, 1, i - 1)>> \o Split(SubSeq(str, i + 1, Len(str)))

\* args[1]: the second element, undefined when there is none
NoArg == <<"undefined">>
SecondArg(args) == IF Len(args) >= 2 THEN args[2] ELSE NoArg

\* A handler that answers bots too
FromBotNever(m) == FALSE

\* if (message.author.bot) return
FromBot(m) == m.bot

\* A test for the prefix anywhere in the content
HasPrefixAnywhere(str) ==
    \E i \in 1..Len(str) : StartsWith(SubSeq(str, i, Len(str)), Prefix)

\* if (message.content.startsWith('!contest'))
HasPrefix(str) == StartsWith(str, Prefix)

Ignored(m) == FromBot(m) \/ ~HasPrefix(m.content)

\* The subcommands that run a function
FunctionCommands == {Check, Leetcode, Codechef, Warn}

\* A dispatch that runs the other platform's reminder
CommandFunctionCrossed(word) ==
    CASE word = Check -> "sendCombinedReminder"
      [] word = Leetcode -> "sendCodeChefReminder"
      [] word = Codechef -> "sendLeetCodeReminder"
      [] OTHER -> "scheduleTenMinuteWarnings"

\* The function each branch of the handler awaits after its reply
CommandFunction(word) ==
    CASE word = Check -> "sendCombinedReminder"
      [] word = Leetcode -> "sendLeetCodeReminder"
      [] word = Codechef -> "sendCodeChefReminder"
      [] OTHER -> "scheduleTenMinuteWarnings"

HelpText ==
    "Available commands: !contest check, !contest leetcode, !contest codechef, !contest warn, !contest status"

\* A final else that answers with the status line
ReplyTextWithoutHelp(word) ==
    CASE word = Check -> "Running contest check..."
      [] word = Leetcode -> "Checking LeetCode contests..."
      [] word = Codechef -> "Checking CodeChef contests..."
      [] word = Warn -> "Scheduling 10-minute warnings..."
      [] OTHER -> "Bot is running. Last check: "

\* The text of the reply each branch sends
ReplyText(word) ==
    CASE word = Check -> "Running contest check..."
      [] word = Leetcode -> "Checking LeetCode contests..."
      [] word = Codechef -> "Checking CodeChef contests..."
      [] word = Warn -> "Scheduling 10-minute warnings..."
      [] word = Status -> "Bot is running. Last check: "
      [] OTHER -> HelpText

\* One message.reply call: its text, the value interpolated into it, and
\* whether the call has resolved
Reply(word, status) ==
    [text |-> ReplyText(word),
     value |-> IF word = Status THEN JsOr(lastScheduledCheck, JsStr("No checks yet"))
               ELSE JsUndef,
     status |-> status]

\* A message arrives and the handler runs up to its first await: a
\* message of a bot or without the prefix is dropped, any other is answered
\* with message.reply(...)
MessageCreate(m) ==
    /\ pc = "idle"
    /\ message = NoInbound
    /\ IF Ignored(m)
       THEN /\ message' = [m EXCEPT !.handled = TRUE]
            /\ UNCHANGED <<pc, replies>>
       ELSE /\ message' = m
            /\ replies' = Append(replies, Reply(SecondArg(Split(m.content)), "pending"))
            /\ pc' = "reply"
    /\ UNCHANGED <<cfg, run, clock, platform, log, invoked>>
    /\ UNCHANGED fetchVars
    /\ UNCHANGED sendVars
    /\ UNCHANGED <<callerVars, timerVars, bootVars>>

\* await message.reply(...) resolves: after the reply of a function
\* subcommand the matching function is called; a reply that is rejected ends
\* the handler with an unhandled rejection
ReplyResolved ==
    /\ pc = "reply"
    /\ \E ok \in BOOLEAN :
        LET word == SecondArg(Split(message.content)) IN
        /\ replies' = [replies EXCEPT ![Len(replies)].status = IF ok THEN "sent" ELSE "failed"]
        /\ IF ok /\ word \in FunctionCommands
           THEN /\ invoked' = Append(invoked, CommandFunction(word))
                /\ BeginReminder(CommandFunction(word))
                /\ scans' = IF CommandFunction(word) = "scheduleTenMinuteWarnings"
                            THEN scans + 1 ELSE scans
                /\ UNCHANGED message
           ELSE /\ message' = [message EXCEPT !.handled = TRUE]
                /\ pc' = "idle"
                /\ log' = IF ok THEN log
                          ELSE Append(log, LogLine("Unhandled Rejection", "", 0))
                /\ UNCHANGED <<cfg, run, clock, platform, invoked, scans>>
                /\ UNCHANGED fetchVars
                /\ UNCHANGED sendVars
                /\ UNCHANGED callerVars
    /\ UNCHANGED <<timers, fired>>
    /\ UNCHANGED bootVars

\* await sendCombinedReminder() etc. resolves and the handler ends
Handler_Return ==
    /\ pc = AfterFunction
    /\ ~message.handled
    /\ message' = [message EXCEPT !.handled = TRUE]
    /\ pc' = "idle"
    /\ UNCHANGED <<cfg, run, clock, platform, log, replies, invoked>>
    /\ UNCHANGED fetchVars
    /\ UNCHANGED sendVars
    /\ UNCHANGED <<callerVars, timerVars, bootVars>>

----------------------------------------------------------------------------
(* The startup code *)

\* The name of each cronJobs entry, in the order of the array
cronJobs ==
    <<"LeetCode Saturday", "CodeChef Wednesday", "Combined Sunday", "Ten-minute warnings">>

JobNames == {cronJobs[i] : i \in 1..Len(cronJobs)}

\* What process.env can hold for a required variable: a value, nothing, or
\* the empty string
EnvValues(v) == {JsStr(v), JsUndef, JsStr("")}

CompleteEnv == [DISCORD_TOKEN |-> JsStr("token"), CHANNEL_ID |-> JsStr("primary")]

requiredEnvVars == {"DISCORD_TOKEN", "CHANNEL_ID"}

\* A check that looks at the token only
missingEnvVarsTokenOnly == {v \in {"DISCORD_TOKEN"} : Falsy(env[v])}

\* requiredEnvVars.filter(varName => !process.env[varName])
missingEnvVars == {v \in requiredEnvVars : Falsy(env[v])}

\* The startup code leaves every variable of the running bot alone
BootFrame ==
    /\ UNCHANGED <<cfg, pc, run, platform>>
    /\ UNCHANGED fetchVars
    /\ UNCHANGED sendVars
    /\ UNCHANGED <<callerVars, handlerVars, timerVars>>

\* if (missingEnvVars.length > 0) { console.error(...); process.exit(1) }
CheckEnvironment ==
    /\ boot = "start"
    /\ IF missingEnvVars # {}
       THEN /\ boot' = "exited"
            /\ log' = Append(log, LogLine("Error: Missing required environment variables", "",
                                           Cardinality(missingEnvVars)))
       ELSE /\ boot' = "jobs"
            /\ UNCHANGED log
    /\ UNCHANGED <<clock, env, expressions, registered, job, loginRetries>>
    /\ BootFrame

\* cron.validate(expr) of node-cron answers with a boolean: true for a
\* valid expression, false for an invalid one
CronValidate(valid) == [threw |-> FALSE, value |-> valid]

\* try { cron.validate(expr); return true } catch (error) { log; return false }
validateCronExpression(valid) ==
    IF CronValidate(valid).threw THEN FALSE ELSE TRUE

\* What cron.schedule does with the expression it is handed: a valid one
\* is scheduled; an invalid one is rejected with an exception or taken as
\* it is, depending on the library
ScheduleOutcomes(valid) == IF valid THEN {"scheduled"} ELSE {"scheduled", "throws"}

\* One round of cronJobs.forEach: validate, then cron.schedule and log, or
\* log the failure. An exception of cron.schedule escapes the module's top
\* level: no handler of uncaught exceptions is installed yet
ScheduleJob ==
    /\ boot = "jobs"
    /\ job <= Len(cronJobs)
    /\ LET name == cronJobs[job] IN
       IF validateCronExpression(expressions[name])
       THEN \E o \in ScheduleOutcomes(expressions[name]) :
            IF o = "scheduled"
            THEN /\ registered' = Append(registered, name)
                 /\ log' = Append(log, LogLine("Scheduled: " \o name, "", 0))
                 /\ job' = job + 1
                 /\ UNCHANGED boot
            ELSE /\ boot' = "crashed"
                 /\ UNCHANGED <<registered, log, job>>
       ELSE /\ log' = log \o <<LogLine("Invalid cron expression for " \o name, "", 0),
                               LogLine("Failed to schedule job: " \o name, "", 0)>>
            /\ job' = job + 1
            /\ UNCHANGED <<registered, boot>>
    /\ UNCHANGED <<clock, env, expressions, loginRetries>>
    /\ BootFrame

\* loginWithRetry() at the end of the module
StartLogin ==
    /\ boot = "jobs"
    /\ job > Len(cronJobs)
    /\ boot' = "login"
    /\ loginRetries' = 0
    /\ UNCHANGED <<clock, log, env, expressions, registered, job>>
    /\ BootFrame

\* A delay that does not grow with the attempts
LoginDelayConstant(retries_) == RETRY_DELAY

\* const delay = RETRY_DELAY * (retries + 1)
LoginDelay(retries_) == RETRY_DELAY * (retries_ + 1)

\* try { await client.login(DISCORD_TOKEN) } catch { log; retry later or exit }
LoginAttempt ==
    /\ boot = "login"
    /\ \E ok \in BOOLEAN :
        IF ok
        THEN /\ boot' = "ready"
             /\ log' = Append(log, LogLine("Attempting to log in to Discord...", "", 0))
        ELSE /\ log' = log \o <<LogLine("Attempting to log in to Discord...", "", 0),
                                LogLine("Login failed", "", loginRetries + 1)>>
                            \o (IF loginRetries < MAX_RETRIES
                                THEN <<LogLine("Retrying login", "", LoginDelay(loginRetries) \div 1000)>>
                                ELSE <<LogLine("All login attempts failed. Exiting...", "", 0)>>)
             /\ boot' = IF loginRetries < MAX_RETRIES THEN "login_wait" ELSE "exited"
    /\ UNCHANGED <<clock, env, expressions, registered, job, loginRetries>>
    /\ BootFrame

\* setTimeout(() => loginWithRetry(retries + 1), delay) expires
LoginRetry ==
    /\ boot = "login_wait"
    /\ clock' = clock + LoginDelay(loginRetries)
    /\ loginRetries' = loginRetries + 1
    /\ boot' = "login"
    /\ UNCHANGED <<log, env, expressions, registered, job>>
    /\ BootFrame

----------------------------------------------------------------------------

NoResult == <<[none |-> TRUE]>>

Configs ==
    [channel : {"primary"},
     backup : {JsUndef, JsStr("primary"), JsStr("backup")},
     admin : {JsUndef, JsStr("admin")}]

Init ==
    /\ cfg \in Configs
    /\ pc = "idle"
    /\ run = "none"
    /\ clock = StartClock
    /\ platform = "none"
    /\ retries = 0
    /\ calls = 0
    /\ waits = <<>>
    /\ fetchStart = StartClock
    /\ upstream = [response |-> Response("none", <<>>), now |-> 0]
    /\ result = NoResult
    /\ log = <<>>
    /\ contests = <<>>
    /\ embed = NoEmbed
    /\ channelId = "none"
    /\ content = NoPayload
    /\ deliveries = 0
    /\ err = "none"
    /\ sends = <<>>
    /\ msg = NoMessage
    /\ ret = "none"
    /\ leetcodeContests = NoResult
    /\ codechefContests = NoResult
    /\ results = <<>>
    /\ fnRet = "none"
    /\ lastScheduledCheck = JsUndef
    /\ message = NoInbound
    /\ replies = <<>>
    /\ invoked = <<>>
    /\ timers = {}
    /\ fired = <<>>
    /\ scans = 0
    /\ boot \in {"start", "ready"}
    /\ IF boot = "start"
       THEN /\ env \in [DISCORD_TOKEN : EnvValues("token"), CHANNEL_ID : EnvValues("primary")]
            /\ expressions \in [JobNames -> BOOLEAN]
            /\ registered = <<>>
            /\ job = 1
       ELSE /\ env = CompleteEnv
            /\ expressions = [j \in JobNames |-> TRUE]
            /\ registered = cronJobs
            /\ job = Len(cronJobs) + 1
    /\ loginRetries = 0

\* The bot is up: the startup code has run with a complete environment and
\* the original cronJobs array
Running == Init /\ boot = "ready"

Next ==
    \/ \E p \in {"LeetCode", "CodeChef"} : CallFetch(p)
    \/ Attempt
    \/ RetryDelay
    \/ \E p \in {"LeetCode", "CodeChef"}, cs \in SeqsUpTo(ContestInputs, MaxContests) :
          CallSendContestsReminder(p, cs)
    \/ PrimarySend
    \/ Caught_sendDiscordMessage
    \/ BackupSend
    \/ AdminNotification
    \/ AfterDelivery
    \/ \E fn \in ReminderFunctions : CallReminderFunction(fn)
    \/ Combined_AfterLeetCodeFetch
    \/ Combined_AfterCodeChefFetch
    \/ Combined_AfterLeetCodeReminder
    \/ Combined_Return
    \/ Single_AfterFetch
    \/ Single_Return
    \/ CallScheduleTenMinuteWarnings
    \/ Scan_AfterLeetCodeFetch
    \/ Scan_AfterCodeChefFetch
    \/ WarningFires
    \/ Wait
    \/ \E m \in Inbound : MessageCreate(m)
    \/ ReplyResolved
    \/ Handler_Return
    \/ CheckEnvironment
    \/ ScheduleJob
    \/ StartLogin
    \/ LoginAttempt
    \/ LoginRetry

Spec == Init /\ [][Next]_vars

\* The adapters alone, with only the required configuration set
FetchInit == Running /\ Falsy(cfg.backup) /\ Falsy(cfg.admin)

FetchNext ==
    \/ \E p \in {"LeetCode", "CodeChef"} : CallFetch(p)
    \/ Attempt
    \/ RetryDelay

SpecFetch == FetchInit /\ [][FetchNext]_vars

\* sendContestsReminder alone, on every contest sequence within the bound
SendNext ==
    \/ \E p \in {"LeetCode", "CodeChef"}, cs \in SeqsUpTo(ContestInputs, MaxContests) :
          CallSendContestsReminder(p, cs)
    \/ PrimarySend
    \/ Caught_sendDiscordMessage
    \/ BackupSend
    \/ AdminNotification
    \/ AfterDelivery

SpecSend == Running /\ [][SendNext]_vars

\* The delivery steps of sendDiscordMessage and the return of
\* sendContestsReminder when only the required variables are configured
DeliveryNext ==
    \/ PrimarySend
    \/ Caught_sendDiscordMessage
    \/ AdminNotification
    \/ AfterDelivery

\* The steps of the three reminder functions once one is running
ReminderSteps ==
    \/ Attempt
    \/ RetryDelay
    \/ Combined_AfterLeetCodeFetch
    \/ Combined_AfterCodeChefFetch
    \/ Combined_AfterLeetCodeReminder
    \/ Combined_Return
    \/ Single_AfterFetch
    \/ Single_Return

\* One run of a reminder function started by the schedule, with only the
\* required variables configured
ReminderInit == FetchInit

ReminderNext ==
    \/ \E fn \in ReminderFunctions : CallReminderFunction(fn)
    \/ ReminderSteps
    \/ DeliveryNext

SpecReminder == ReminderInit /\ [][ReminderNext]_vars

\* Requests are answered or time out, retry delays expire and Discord's
\* promises settle: a function that has been called keeps running
ReminderFairness ==
    /\ WF_vars(ReminderSteps)
    /\ WF_vars(DeliveryNext)

SpecReminderFair == SpecReminder /\ ReminderFairness

\* The 'Ten-minute warnings' job and the warnings it arms, with only the
\* required variables configured
ScanInit == FetchInit

ScanNext ==
    \/ CallScheduleTenMinuteWarnings
    \/ Attempt
    \/ RetryDelay
    \/ Scan_AfterLeetCodeFetch
    \/ Scan_AfterCodeChefFetch
    \/ WarningFires
    \/ Wait

\* Requests are answered or time out, delays and timers expire, and due
\* callbacks run as long as the process is alive
ScanFairness ==
    /\ WF_vars(CallScheduleTenMinuteWarnings)
    /\ WF_vars(Attempt)
    /\ WF_vars(RetryDelay)
    /\ WF_vars(Scan_AfterLeetCodeFetch)
    /\ WF_vars(Scan_AfterCodeChefFetch)
    /\ WF_vars(WarningFires)
    /\ WF_vars(Wait)

\* One message handled by the messageCreate handler, with only the required
\* variables configured
CommandInit == FetchInit

CommandNext ==
    \/ \E m \in Inbound : MessageCreate(m)
    \/ ReplyResolved
    \/ Handler_Return
    \/ ReminderSteps
    \/ DeliveryNext
    \/ Scan_AfterLeetCodeFetch
    \/ Scan_AfterCodeChefFetch

SpecCommand == CommandInit /\ [][CommandNext]_vars

\* The startup code, from the first line of the module to the login
StartupInit == Init /\ boot = "start" /\ Falsy(cfg.backup) /\ Falsy(cfg.admin)

StartupNext ==
    \/ CheckEnvironment
    \/ ScheduleJob
    \/ StartLogin
    \/ LoginAttempt
    \/ LoginRetry

SpecStartup == StartupInit /\ [][StartupNext]_vars

SpecScan == ScanInit /\ [][ScanNext]_vars /\ ScanFairness

----------------------------------------------------------------------------
(* Properties of the retry wrapper and the adapters *)

\* The adapter has returned to its caller
FetchReturned == run = "fetch" /\ pc = AfterFetch

\* Every attempt failed: a successful attempt ends the call, so the call has
\* ended with a failed attempt exactly when all of them failed
AllAttemptsFailed ==
    FetchReturned /\ upstream.response.kind \in FailureKinds

FetchSucceeded == FetchReturned /\ upstream.response.kind = "ok"

\* C1: fetchWithRetry with an operation that fails on every attempt invokes
\* the operation exactly MAX_RETRIES + 1 = 4 times and then returns the
\* empty sequence.
C1_AlwaysFailingCalls ==
    AllAttemptsFailed => calls = MAX_RETRIES + 1 /\ calls = 4 /\ result = <<>>

C1_Witness == AllAttemptsFailed /\ calls = 4 /\ result = <<>>

\* C2: the adapters never throw: whatever the failures and malformed
\* payloads, a call ends by returning the result of its first successful
\* attempt or the empty sequence, and no attempt follows a successful one.
C2_NeverThrows ==
    /\ [](pc # "thrown")
    /\ [](FetchReturned =>
            \/ /\ upstream.response.kind = "ok"
               /\ result = FetchFunc(platform, upstream.response, upstream.now).value
            \/ /\ upstream.response.kind \in FailureKinds
               /\ result = <<>>)
    /\ [][upstream.response.kind = "ok" => calls' = calls]_vars

C2_Witness ==
    /\ FetchSucceeded
    /\ calls = 3
    /\ platform = "CodeChef"
    /\ Len(result) = 2

\* C3 as claimed: the same constant delay before every retry, a wait only
\* between attempts, and a failure-path latency of at most
\* MAX_RETRIES * RETRY_DELAY.
C3_LatencyCappedByDelays ==
    AllAttemptsFailed =>
        /\ \A i \in 1..Len(waits) : waits[i] = RETRY_DELAY
        /\ Len(waits) = calls - 1
        /\ clock - fetchStart <= MAX_RETRIES * RETRY_DELAY

\* C3 amended: the same constant delay (RETRY_DELAY) is waited before every
\* retry, a wait happens only between attempts (none after the last failed
\* attempt), and the waits of the failure path total exactly
\* MAX_RETRIES * RETRY_DELAY; the latency adds the time the MAX_RETRIES + 1
\* requests themselves take, each at most the request timeout.
C3_WaitsCapped ==
    /\ \A i \in 1..Len(waits) : waits[i] = RETRY_DELAY
    /\ Len(waits) = IF pc = "delay" THEN calls - 1 ELSE retries
    /\ run = "fetch" => calls = IF pc = "attempt" THEN retries ELSE retries + 1
    /\ AllAttemptsFailed =>
        /\ Len(waits) = calls - 1
        /\ SeqSum(waits) = MAX_RETRIES * RETRY_DELAY
        /\ clock - fetchStart > MAX_RETRIES * RETRY_DELAY
        /\ clock - fetchStart <=
             MAX_RETRIES * RETRY_DELAY + (MAX_RETRIES + 1) * REQUEST_TIMEOUT

C3_Witness ==
    /\ AllAttemptsFailed
    /\ waits = <<RETRY_DELAY, RETRY_DELAY, RETRY_DELAY>>
    /\ clock - fetchStart = MAX_RETRIES * RETRY_DELAY + (MAX_RETRIES + 1) * REQUEST_TIMEOUT

\* The upstream listing of the successful attempt
Listing == upstream.response.listing

IsUpcoming(c) == c.startTime.t = "number" /\ c.startTime.n > upstream.now

\* C4: the LeetCode adapter returns exactly the entries whose startTime is
\* strictly greater than the current time in seconds, in upstream order; the
\* CodeChef adapter returns one record per upstream entry, whatever its
\* start time.
C4_FilterAsymmetry ==
    FetchSucceeded =>
        IF platform = "LeetCode"
        THEN /\ \A j \in 1..Len(result) : IsUpcoming(result[j])
             /\ Len(result) = Cardinality({i \in 1..Len(Listing) : IsUpcoming(Listing[i])})
             /\ \E f \in [1..Len(result) -> 1..Len(Listing)] :
                  /\ \A j \in 1..Len(result) : result[j] = Listing[f[j]]
                  /\ \A j, k \in 1..Len(result) : j < k => f[j] < f[k]
        ELSE /\ Len(result) = Len(Listing)
             /\ \A i \in 1..Len(Listing) :
                  result[i].startTime =
                      JsDiv(GetTime(Listing[i].contest_start_date), 1000)

C4_Witness ==
    /\ FetchSucceeded
    /\ platform = "LeetCode"
    /\ Len(Listing) = 2
    /\ Listing[1].startTime = JsNum(upstream.now)
    /\ Listing[2].startTime = JsNum(upstream.now + 3600)
    /\ result = <<Listing[2]>>

InvalidStructure(p) ==
    "Error fetching: Invalid response structure from " \o p \o " API"

\* C5: a payload without the expected top-level field is a failed attempt:
\* it is logged with its attempt number and retried like any other failure,
\* and the empty sequence is returned only after all attempts have failed.
C5_MissingFieldIsFailure ==
    (run = "fetch" /\ upstream.response.kind = "missing_field") =>
        /\ \E i \in 1..Len(log) : log[i] = LogLine(InvalidStructure(platform), platform, calls)
        /\ calls <= MAX_RETRIES => pc \in {"delay", "attempt"}
        /\ pc = AfterFetch => calls = MAX_RETRIES + 1 /\ result = <<>>

C5_Witness ==
    /\ run = "fetch"
    /\ upstream.response.kind = "missing_field"
    /\ pc = "delay"
    /\ calls = 2

\* C6: every CodeChef record's duration is the difference between the parsed
\* end and start timestamps in milliseconds divided by 60,000: the contest
\* length in minutes.
C6_DurationInMinutes ==
    (FetchSucceeded /\ platform = "CodeChef") =>
        \A i \in 1..Len(Listing) :
            LET start == GetTime(Listing[i].contest_start_date)
                end == GetTime(Listing[i].contest_end_date)
            IN  (start.t = "number" /\ end.t = "number") =>
                    result[i].duration = JsNum((end.n - start.n) \div 60000)

----------------------------------------------------------------------------
(* Properties of the composer and of delivery *)

ReminderCalled == run = "reminder"

Calls(site) == {i \in 1..Len(sends) : sends[i].site = site}

\* C7: sendContestsReminder with an empty contest sequence makes exactly one
\* delivery call, carrying the plain-text "no upcoming contests" message,
\* and never builds or sends an embed.
C7_EmptyIsOnePlainMessage ==
    (ReminderCalled /\ contests = <<>>) =>
        /\ deliveries = 1
        /\ content.kind = "string"
        /\ content.content = "No upcoming " \o platform \o " contests found. Keep practicing!"
        /\ ~embed.built
        /\ \A i \in 1..Len(sends) : sends[i].payload.embeds = <<>>
        /\ \A i \in Calls("primary") : sends[i].payload = content

C7_Witness ==
    /\ ReminderCalled
    /\ contests = <<>>
    /\ pc = "done"
    /\ Len(sends) = 1
    /\ sends[1].site = "primary"
    /\ sends[1].ok

\* A title or startTime that is missing: undefined, or a value the code
\* cannot use (the empty string, NaN, 0)
MissingValue(v) == v \in {JsUndef, JsNaN, JsStr(""), JsNum(0)}

LacksTitleOrStart(c) == MissingValue(c.title) \/ MissingValue(c.startTime)

Skipped == {i \in 1..Len(contests) : LacksTitleOrStart(contests[i])}
Kept == {i \in 1..Len(contests) : ~LacksTitleOrStart(contests[i])}

SkipLogLines == {i \in 1..Len(log) : log[i].text = "Warning: Incomplete contest data"}

PrimaryFailed ==
    /\ err # "none"
    /\ \A i \in Calls("primary") : ~sends[i].ok

BackupUsable == cfg.backup # JsUndef /\ cfg.backup.s # channelId

\* C9: a send to the backup channel is attempted only if the primary send
\* failed, a backup channel is configured and its identifier differs from
\* the channel that was tried; with no backup configured, or the backup
\* equal to the primary, no backup send is ever attempted.
C9_BackupOnlyWhenUsable ==
    /\ (pc = "backup" \/ Calls("backup") # {}) => PrimaryFailed /\ BackupUsable
    /\ \A i \in Calls("backup") : sends[i].to = cfg.backup.s /\ sends[i].to # channelId
    /\ ~BackupUsable => pc # "backup" /\ Calls("backup") = {}

C9_Witness ==
    /\ Calls("backup") # {}
    /\ PrimaryFailed
    /\ cfg.backup = JsStr("backup")

\* The primary send failed and the backup send succeeded
BackupDelivered == PrimaryFailed /\ \E i \in Calls("backup") : sends[i].ok

\* C10: when the primary send fails and the backup send succeeds,
\* sendDiscordMessage returns the delivered backup message (success), and no
\* admin notification is attempted.
C10_BackupSuccessIsSuccess ==
    BackupDelivered =>
        /\ pc \in {"returned", "done"}
        /\ msg # Null
        /\ msg.kind = "message"
        /\ msg.channel = cfg.backup.s
        /\ \E i \in Calls("backup") : sends[i].ok /\ msg.payload = sends[i].payload
        /\ Calls("admin") = {}
        /\ \A i \in 1..Len(log) : log[i].text # "Failed to notify admin"

C10_Witness ==
    /\ BackupDelivered
    /\ pc = "done"
    /\ cfg.admin = JsStr("admin")
    /\ contests # <<>>

\* sendDiscordMessage has returned to its caller
DeliveryReturned == pc \in {"returned", "done"}

\* Neither the primary nor the backup send succeeded
NothingDelivered ==
    \A i \in Calls("primary") \cup Calls("backup") : ~sends[i].ok

AdminFetches == {i \in Calls("admin") : sends[i].op = "fetch"}
AdminSends == {i \in Calls("admin") : sends[i].op = "send"}

\* C11: when the primary send fails and no backup send succeeds (backup not
\* configured, equal to the primary, not in the cache, or its send failed),
\* exactly one admin notification is attempted if an admin recipient is
\* configured, and none if no admin is configured.
C11_AdminNotifiedOnce ==
    (ReminderCalled /\ DeliveryReturned /\ PrimaryFailed /\ NothingDelivered) =>
        IF cfg.admin # JsUndef
        THEN /\ Cardinality(AdminFetches) = 1
             /\ \A i \in AdminFetches : sends[i].to = cfg.admin.s
             /\ Cardinality(AdminSends) = IF \E i \in AdminFetches : sends[i].ok THEN 1 ELSE 0
             /\ \A i \in AdminSends : sends[i].to = cfg.admin.s
        ELSE Calls("admin") = {}

C11_Witness ==
    /\ ReminderCalled
    /\ DeliveryReturned
    /\ PrimaryFailed
    /\ \E i \in Calls("backup") : ~sends[i].ok
    /\ Cardinality(AdminSends) = 1

\* C12: sendDiscordMessage never throws to its caller, and returns null
\* whenever neither the primary nor the backup send succeeded, whether the
\* admin notification succeeded, failed or was not configured.
C12_FailureReturnsNull ==
    /\ pc # "thrown"
    /\ (ReminderCalled /\ DeliveryReturned /\ NothingDelivered) => msg = Null
    /\ (ReminderCalled /\ DeliveryReturned /\ msg = Null) => NothingDelivered /\ PrimaryFailed

C12_Witness ==
    /\ ReminderCalled
    /\ pc = "returned"
    /\ msg = Null
    /\ \E i \in AdminFetches : ~sends[i].ok

Reactions == Calls("reaction")

\* C13: a reaction is attempted only on the message that delivery returned,
\* never when delivery returned null; a failing reaction is only logged: the
\* reminder still returns true, nothing is sent again and no backup or admin
\* fallback follows it.
C13_ReactionOnlyOnDeliveredMessage ==
    ReminderCalled =>
        /\ Cardinality(Reactions) <= 1
        /\ \A i \in Reactions :
            /\ msg.kind = "message"
            /\ sends[i].to = msg.channel
            /\ sends[i].payload = msg.payload
            /\ i = Len(sends)
            /\ pc = "done"
            /\ ret = "true"
            /\ deliveries = 1
        /\ msg = Null => Reactions = {}
        /\ (pc = "done" /\ contests # <<>>) => ret = "true"

C13_Witness ==
    /\ ReminderCalled
    /\ pc = "done"
    /\ \E i \in Reactions : ~sends[i].ok /\ sends[i].to = "backup"
    /\ ret = "true"

----------------------------------------------------------------------------
(* The reminder functions *)

CombinedFinished == run = "sendCombinedReminder" /\ pc = AfterFunction

\* The messages handed to send(), in order: channel and admin sends, not
\* lookups or reactions
MessagesSent == SelectSeq(sends, LAMBDA c : c.op = "send")

\* Every delivery call reached the primary channel and its send succeeded
PrimaryWorked ==
    Cardinality({i \in Calls("primary") : sends[i].ok}) = deliveries

\* The adapter's answer was one contest with a title and a start time
OneCompleteContest(cs) == Len(cs) = 1 /\ ~Incomplete(cs[1])

\* C14: when the LeetCode adapter returned one complete future contest and
\* the CodeChef adapter returned the empty sequence, a run of
\* sendCombinedReminder whose primary channel works sends exactly two
\* messages: first the rich notification for LeetCode, with one field for
\* that contest, then the plain "none found" message for CodeChef.
C14_RichThenNoneFound ==
    (/\ CombinedFinished
     /\ OneCompleteContest(leetcodeContests)
     /\ codechefContests = <<>>
     /\ PrimaryWorked) =>
        /\ Len(MessagesSent) = 2
        /\ deliveries = 2
        /\ MessagesSent[1].site = "primary"
        /\ MessagesSent[1].to = cfg.channel
        /\ MessagesSent[1].payload =
               ReminderMessage("LeetCode", BuildEmbed("LeetCode", leetcodeContests))
        /\ MessagesSent[1].payload.embeds[1].fields = <<ContestField(leetcodeContests[1])>>
        /\ MessagesSent[2].site = "primary"
        /\ MessagesSent[2].to = cfg.channel
        /\ MessagesSent[2].payload = NoContestsMessage("CodeChef")
        /\ fnRet = "true"

C14_Witness ==
    /\ CombinedFinished
    /\ OneCompleteContest(leetcodeContests)
    /\ leetcodeContests[1].title = JsStr("Weekly 300")
    /\ leetcodeContests[1].startTime.n > NowSeconds(clock) + 3000
    /\ codechefContests = <<>>
    /\ PrimaryWorked
    /\ Len(MessagesSent) = 2

NoneFoundText(p) ==
    IF p = "LeetCode"
    THEN StringPayload("No upcoming LeetCode contests found. Keep practicing!")
    ELSE StringPayload("No upcoming CodeChef contests found. Keep practicing!")

\* C15: when both adapters returned the empty sequence, a run of
\* sendCombinedReminder makes two delivery calls, one per platform, each
\* handing over that platform's own "no upcoming contests" text: first
\* LeetCode's, then CodeChef's, never one merged message; with a working
\* primary channel exactly these two messages are sent.
C15_TwoIndependentMessages ==
    (/\ run = "sendCombinedReminder"
     /\ leetcodeContests = <<>>
     /\ codechefContests = <<>>) =>
        /\ deliveries \in {1, 2}
        /\ platform = (IF deliveries = 1 THEN "LeetCode" ELSE "CodeChef")
        /\ content = NoneFoundText(platform)
        /\ NoneFoundText("LeetCode") # NoneFoundText("CodeChef")
        /\ \A i \in 1..Len(MessagesSent) :
              MessagesSent[i].payload \in {NoneFoundText("LeetCode"), NoneFoundText("CodeChef")}
        /\ CombinedFinished =>
              /\ deliveries = 2
              /\ results = <<"undefined", "undefined">>
              /\ PrimaryWorked =>
                    /\ Len(MessagesSent) = 2
                    /\ MessagesSent[1].payload = NoneFoundText("LeetCode")
                    /\ MessagesSent[2].payload = NoneFoundText("CodeChef")

C15_Witness ==
    /\ CombinedFinished
    /\ leetcodeContests = <<>>
    /\ codechefContests = <<>>
    /\ PrimaryWorked
    /\ Len(MessagesSent) = 2
    /\ MessagesSent[1].payload.kind = "string"
    /\ MessagesSent[2].payload.kind = "string"

\* sendDiscordMessage has just returned the LeetCode reminder it sent
LeetCodeReminderSent ==
    /\ run \in ReminderFunctions
    /\ platform = "LeetCode"
    /\ pc = "returned"
    /\ msg.kind = "message"

\* C18: every LeetCode record in a reminder that has just been sent has a
\* startTime later than the current second, whatever retries, delays and
\* CodeChef fetch came between the LeetCode fetch and the send.
C18_FutureAtSend ==
    LeetCodeReminderSent =>
        \A i \in 1..Len(contests) :
            JsGreater(contests[i].startTime, JsNum(NowSeconds(clock)))

----------------------------------------------------------------------------
(* The ten-minute warnings *)

Pending(k) == \E tm \in timers : tm.id = k
Fired(k) == \E i \in 1..Len(fired) : fired[i].timer.id = k

\* The callback of tm has just run for the first time: one more delivery
\* call, and every channel send of the step carries the warning of tm's
\* contest or the degraded copy of it
FiresNow(tm) ==
    /\ ~Fired(tm.id)
    /\ Len(fired') = Len(fired) + 1
    /\ fired'[Len(fired')].timer = tm
    /\ fired'[Len(fired')].at >= tm.fireAt
    /\ deliveries' = deliveries + 1
    /\ Len(WarningMessage(tm).embeds[1].fields) = 1
    /\ WarningMessage(tm).embeds[1].fields[1].name = JsToString(tm.contest.title)
    /\ \A i \in (Len(sends) + 1)..Len(sends') :
          sends'[i].site \in {"primary", "reaction"} => sends'[i].payload = WarningMessage(tm)

\* C17: a warning that is armed stays armed until its callback runs, whatever
\* later scans list; its callback runs exactly once, making one delivery
\* call for its single contest; and as long as the process is alive every
\* armed warning does fire.
C17_ArmedWarningFiresOnce ==
    /\ [][\A tm \in timers : tm \in timers' \/ FiresNow(tm)]_vars
    /\ [](\A i, j \in 1..Len(fired) : fired[i].timer.id = fired[j].timer.id => i = j)
    /\ [](\A k \in 1..ArmedSoFar : Pending(k) \/ Fired(k))
    /\ [](\A k \in 1..ArmedSoFar : ~(Pending(k) /\ Fired(k)))
    /\ \A k \in 1..(3 * MaxScans) : Pending(k) ~> Fired(k)

\* A warning armed by the first scan has fired after the second scan, which
\* listed no contest or the contest with another start time
C17_Witness ==
    /\ scans = 2
    /\ run = "scheduleTenMinuteWarnings"
    /\ pc = AfterFunction
    /\ timers = {}
    /\ \E i \in 1..Len(fired) :
        /\ fired[i].at > Tick(1)
        /\ fired[i].timer.fireAt - Tick(1) < WARNING_WINDOW * 1000
        /\ fired[i].timer.fireAt > Tick(1)
        /\ \A c \in 1..Len(leetcodeContests) :
              leetcodeContests[c].startTime # fired[i].timer.contest.startTime

----------------------------------------------------------------------------
(* The messageCreate handler *)

Received == message # NoInbound

\* Nothing has been fetched, sent or logged and no function has started
NothingStarted ==
    /\ run = "none"
    /\ calls = 0
    /\ deliveries = 0
    /\ sends = <<>>
    /\ log \in {<<>>, <<LogLine("Unhandled Rejection", "", 0)>>}
    /\ timers = {}

\* C19: for a message authored by a bot, and for a message whose content
\* does not start with '!contest', the handler sends no reply and invokes no
\* reminder or scan function: nothing is fetched, sent or armed.
C19_IgnoredMessages ==
    (Received /\ (message.bot \/ ~StartsWith(message.content, Prefix))) =>
        /\ replies = <<>>
        /\ invoked = <<>>
        /\ NothingStarted
        /\ log = <<>>
        /\ pc = "idle"
        /\ message.handled

C19_Witness ==
    /\ Received
    /\ message.handled
    /\ ~message.bot
    /\ ~StartsWith(message.content, Prefix)
    /\ \E i \in 1..Len(message.content) :
          SubSeq(message.content, i, Len(message.content)) = Prefix \o Space \o Check
    /\ replies = <<>>

\* The message is one of !contest check / leetcode / codechef / warn from a user
FunctionCommand ==
    /\ Received
    /\ ~message.bot
    /\ StartsWith(message.content, Prefix)
    /\ SecondArg(Split(message.content)) \in FunctionCommands

\* The function that matches the subcommand of the message
Matching ==
    LET word == SecondArg(Split(message.content)) IN
    CASE word = Check -> "sendCombinedReminder"
      [] word = Leetcode -> "sendLeetCodeReminder"
      [] word = Codechef -> "sendCodeChefReminder"
      [] word = Warn -> "scheduleTenMinuteWarnings"

\* The handler is done with the message
Handled == Received /\ message.handled

\* C20 as stated: for each of the subcommands check, leetcode, codechef and
\* warn the handler sends the acknowledgment before the matching function
\* starts and invokes exactly the matching function exactly once per message.
C20_AckThenFunctionOnce ==
    FunctionCommand =>
        /\ Len(replies) = 1
        /\ replies[1].status # "sent" => (invoked = <<>> /\ NothingStarted)
        /\ invoked \in {<<>>, <<Matching>>}
        /\ Handled => invoked = <<Matching>>

\* C20, amended: the acknowledgment is sent before the matching function
\* starts, the function starts only once the acknowledgment has been
\* delivered, and then exactly the matching function is invoked exactly
\* once; when the acknowledgment is rejected the handler ends without
\* invoking any function.
C20_AckDeliveredThenFunctionOnce ==
    FunctionCommand =>
        /\ Len(replies) = 1
        /\ replies[1].text = ReplyText(SecondArg(Split(message.content)))
        /\ replies[1].status # "sent" => (invoked = <<>> /\ NothingStarted)
        /\ invoked \in {<<>>, <<Matching>>}
        /\ invoked # <<>> => run = Matching
        /\ run \in {"none", Matching}
        /\ (Handled /\ replies[1].status = "sent") => (invoked = <<Matching>> /\ fnRet # "none")
        /\ (Handled /\ replies[1].status = "failed") => invoked = <<>>

C20_Witness ==
    /\ FunctionCommand
    /\ Handled
    /\ SecondArg(Split(message.content)) = Warn
    /\ replies[1].status = "sent"
    /\ invoked = <<"scheduleTenMinuteWarnings">>
    /\ timers # {}

----------------------------------------------------------------------------
(* Startup *)

\* forEach has dealt with the i-th entry of cronJobs
Processed(i) == boot # "start" /\ (job > i \/ (job = i /\ boot = "crashed"))

Logged(text) == \E i \in 1..Len(log) : log[i].text = text

IsRegistered(name) == \E i \in 1..Len(registered) : registered[i] = name

\* C16: at startup an entry of cronJobs whose expression is invalid is
\* logged as invalid and not registered, every other entry is registered,
\* and startup goes on to the login.
C16_InvalidEntrySkipped ==
    /\ boot # "crashed"
    /\ \A i \in 1..Len(cronJobs) :
        Processed(i) =>
            IF expressions[cronJobs[i]]
            THEN IsRegistered(cronJobs[i])
            ELSE /\ ~IsRegistered(cronJobs[i])
                 /\ Logged("Invalid cron expression for " \o cronJobs[i])
    /\ (boot = "jobs" /\ job > Len(cronJobs)) => ENABLED StartLogin

\* The message is a '!contest' message of a user whose second token is
\* missing or is none of the five subcommands
UnknownCommand ==
    /\ Received
    /\ ~message.bot
    /\ StartsWith(message.content, Prefix)
    /\ SecondArg(Split(message.content)) \notin {Check, Leetcode, Codechef, Warn, Status}

\* C21: a '!contest' message whose subcommand token is missing or is not one
\* of check, leetcode, codechef, warn, status is answered with exactly one
\* reply, the help text listing the valid subcommands, and no reminder or
\* scan function is invoked.
C21_UnknownCommandGetsHelp ==
    UnknownCommand =>
        /\ Len(replies) = 1
        /\ replies[1].text = HelpText
        /\ replies[1].value = JsUndef
        /\ invoked = <<>>
        /\ NothingStarted
        /\ pc \in {"reply", "idle"}
        /\ Handled => replies[1].status \in {"sent", "failed"}

C21_Witness ==
    /\ UnknownCommand
    /\ Handled
    /\ Len(Split(message.content)) = 1
    /\ replies[1].text = HelpText
    /\ replies[1].status = "sent"

\* A required variable is not in the environment
RequiredAbsent == env.DISCORD_TOKEN = JsUndef \/ env.CHANNEL_ID = JsUndef

LoginAttempted == Logged("Attempting to log in to Discord...")

\* C22: when DISCORD_TOKEN or CHANNEL_ID is absent, the startup code goes
\* from its first check straight to process.exit(1): it never reaches the
\* code after the check (the creation of the client, cronJobs.forEach, the
\* login), so no entry is registered and no login is attempted.
C22_MissingEnvExits ==
    (RequiredAbsent /\ boot # "start") =>
        /\ boot = "exited"
        /\ registered = <<>>
        /\ job = 1
        /\ ~LoginAttempted
        /\ loginRetries = 0
        /\ Logged("Error: Missing required environment variables")
        /\ Len(log) = 1

C22_Witness ==
    /\ boot = "exited"
    /\ env.CHANNEL_ID = JsUndef
    /\ env.DISCORD_TOKEN = JsStr("token")
    /\ registered = <<>>

----------------------------------------------------------------------------
(* Reminder functions: delivery attempts *)

\* The platforms a reminder function covers
Covered(fn) ==
    CASE fn = "sendLeetCodeReminder" -> {"LeetCode"}
      [] fn = "sendCodeChefReminder" -> {"CodeChef"}
      [] OTHER -> {"LeetCode", "CodeChef"}

\* sendDiscordMessage(CHANNEL_ID, ...) is being called for platform p
DeliveryCall(p) == pc = "send" /\ platform = p

\* The fetch that ended last gave up after MAX_RETRIES + 1 failed attempts
LastFetchGaveUp ==
    /\ calls = MAX_RETRIES + 1
    /\ upstream.response.kind = "network_error"
    /\ result = <<>>

----------------------------------------------------------------------------
(* One scan: which records get a timer *)

\* The step of a scan that follows its second fetch: it reads the clock,
\* arms the timers and logs the count
ScanArms ==
    /\ run = "scheduleTenMinuteWarnings"
    /\ pc = AfterFetch
    /\ platform = "CodeChef"
    /\ pc' = AfterFunction

\* The record has a startTime: a number other than 0
HasStartTime(e) == e.contest.startTime.t = "number" /\ e.contest.startTime.n # 0

\* startTime - now - 600, seconds, with now read at the instant `ms`
SecondsToWarning(e, ms) == e.contest.startTime.n - (ms \div 1000) - 600

\* The timer tm was armed at instant `ms` for the record e
ArmedFor(tm, e, ms) ==
    /\ tm.contest = e.contest
    /\ tm.platform = e.platform
    /\ tm.fireAt = ms + SecondsToWarning(e, ms) * 1000
    /\ tm.fireAt \div 1000 = e.contest.startTime.n - 600

\* C24: in one run of scheduleTenMinuteWarnings, with now read after both
\* fetches, a timer is armed for a record exactly when the record has a
\* startTime and 0 < startTime - now - 600 < 1800; the delay of the timer is
\* that many seconds, so it is due in the second that lies 10 minutes before
\* the start; the timers armed before stay; and the count the run logs is
\* the number of timers it armed.
C24_TimerIffInWindow ==
    [][ScanArms =>
        LET all == AllContests(leetcodeContests, result)
            armed == timers' \ timers
            qualifying == {i \in 1..Len(all) :
                              /\ HasStartTime(all[i])
                              /\ 0 < SecondsToWarning(all[i], clock)
                              /\ SecondsToWarning(all[i], clock) < 1800}
        IN /\ timers \subseteq timers'
           /\ Cardinality(armed) = Cardinality(qualifying)
           /\ \A i \in qualifying : \E tm \in armed : ArmedFor(tm, all[i], clock)
           /\ \A tm \in armed : \E i \in qualifying : ArmedFor(tm, all[i], clock)
           /\ log'[Len(log')] =
                 LogLine("Scheduled ten-minute warnings", "", Cardinality(armed))]_vars

\* The first scan, delayed by one retry, has listed two CodeChef records and
\* armed one timer: none for the record without a start, one for the other
C24_Witness ==
    /\ scans = 1
    /\ run = "scheduleTenMinuteWarnings"
    /\ pc = AfterFunction
    /\ leetcodeContests = <<>>
    /\ Len(codechefContests) = 2
    /\ codechefContests[1].startTime = JsNaN
    /\ Cardinality(timers) = 1
    /\ \A tm \in timers : /\ tm.platform = "CodeChef"
                          /\ tm.contest = codechefContests[2]
                          /\ tm.fireAt \div 1000 = 3600
    /\ log[Len(log)] = LogLine("Scheduled ten-minute warnings", "", 1)

----------------------------------------------------------------------------
(* Successive scans: how many warnings one contest gets *)

\* The contests the platforms announce during the scans: platform and start
ScanContests ==
    {[platform |-> "LeetCode", start |-> t] : t \in ScanStartTimes}
    \cup {[platform |-> "CodeChef", start |-> 4200]}

\* A fetch of a scan has just returned for the platform of contest k
FetchOfScanReturned(k) ==
    run = "scheduleTenMinuteWarnings" /\ pc = AfterFetch /\ platform = k.platform

\* The list the fetch returned holds contest k with its start time
Returned(k) == \E i \in 1..Len(result) : result[i].startTime = JsNum(k.start)

\* The number of timers armed so far for contest k
WarningsArmed(k) ==
    LET IsFor(tm) == tm.platform = k.platform /\ tm.contest.startTime = JsNum(k.start)
    IN Cardinality({tm \in timers : IsFor(tm)})
       + Cardinality({i \in 1..Len(fired) : IsFor(fired[i].timer)})

\* C25: with the scan run every 30 minutes and no manual scan, a contest
\* that every fetch of its platform returns with the same start time gets a
\* warning armed, and never a second one, whatever the retries and delays
\* inside the scans.
C25_ExactlyOneWarning ==
    \A k \in ScanContests :
        [](FetchOfScanReturned(k) => Returned(k))
            => /\ <>(WarningsArmed(k) >= 1)
               /\ [](WarningsArmed(k) <= 1)

----------------------------------------------------------------------------
(* What the reminder functions report *)

\* sendDiscordMessage returned the message it delivered to the primary or
\* to the backup channel, not null
Delivered == msg # Null

\* C26: sendContestsReminder, sendLeetCodeReminder and sendCodeChefReminder
\* return true only when the notification of the platform was delivered to
\* the primary or to the backup channel.
C26_TrueOnlyWhenDelivered ==
    /\ (pc = "done" /\ ret = "true") => Delivered
    /\ (run \in SinglePlatformFunctions /\ pc = AfterFunction /\ fnRet = "true")
          => Delivered

----------------------------------------------------------------------------
(* The rich notification of sendContestsReminder *)

\* The calls in which a message with an embed was sent to a channel
RichNotifications ==
    {i \in 1..Len(sends) : /\ sends[i].op = "send"
                           /\ sends[i].ok
                           /\ sends[i].payload.embeds # <<>>}

\* C27: every notification with an embed that sendContestsReminder sends
\* has at least one contest field, whatever the input sequence, the
\* non-empty sequences whose records all lack a title or a startTime
\* included.
C27_RichNotificationHasField ==
    \A i \in RichNotifications :
        \A j \in 1..Len(sends[i].payload.embeds) :
            Len(sends[i].payload.embeds[j].fields) >= 1

----------------------------------------------------------------------------
(* The degraded message for the backup channel *)

\* The calls that sent a message to the backup channel
BackupCalls == {i \in 1..Len(sends) : sends[i].site = "backup" /\ sends[i].ok}

\* The text of a payload: the string itself, or the content of the object
TextOf(payload) == payload.content

\* The text `whole` is the annotation of the failure followed by `original`
CarriesText(whole, original) ==
    whole = "Failed to send to main channel. Original message: " \o original

\* C28: the message sent to the backup channel has no embeds and carries
\* the text of the payload the primary channel was to receive, both when
\* that payload is an object with content and embeds and when it is a plain
\* string such as the "none found" message.
C28_DegradedCarriesText ==
    \A i \in BackupCalls :
        /\ sends[i].payload.embeds = <<>>
        /\ CarriesText(TextOf(sends[i].payload), TextOf(content))

----------------------------------------------------------------------------
(* loginWithRetry *)

\* The number of lines of the log with the given text
Lines(text) == Cardinality({i \in 1..Len(log) : log[i].text = text})

\* The calls of client.login made so far, and those that were rejected
LoginAttempts == Lines("Attempting to log in to Discord...")
LoginFailures == Lines("Login failed")

\* The delay between two attempts is running
WaitsForRetry == boot = "login_wait" /\ boot' = "login"

\* C29: loginWithRetry calls client.login at most MAX_RETRIES + 1 = 4 times;
\* after the k-th failed attempt, k = 1..3, it waits RETRY_DELAY * k before
\* the next one; after the 4th failure the process exits through
\* process.exit(1); after a successful login no further attempt is made.
C29_LoginAttemptsBounded ==
    /\ [](LoginAttempts <= MAX_RETRIES + 1 /\ LoginAttempts <= 4)
    /\ [](LoginFailures <= LoginAttempts)
    /\ [][WaitsForRetry => /\ LoginFailures \in 1..3
                           /\ LoginFailures = LoginAttempts
                           /\ clock' - clock = RETRY_DELAY * LoginFailures
                           /\ LoginAttempts' = LoginAttempts]_vars
    /\ [](boot = "login_wait" => LoginFailures \in 1..3)
    /\ [](LoginFailures = 4 =>
              /\ boot = "exited"
              /\ log[Len(log)].text = "All login attempts failed. Exiting...")
    /\ [][LoginFailures = 4 => LoginAttempts' = LoginAttempts]_vars
    /\ [][boot = "ready" => boot' = "ready" /\ LoginAttempts' = LoginAttempts]_vars

\* Four attempts have failed, 60 s, 120 s and 180 s apart, and the process
\* has exited
C29_Witness ==
    /\ boot = "exited"
    /\ LoginAttempts = 4
    /\ LoginFailures = 4
    /\ clock = StartClock + RETRY_DELAY * (1 + 2 + 3)

====
